---------------------------- MODULE Spec2Model ----------------------------
(***************************************************************************)
(* The TCPL ticket dashboard: two Streamlit scripts, src/app.py and        *)
(* src/streamlit_ticket_dashboard_app.py.  Streamlit runs the whole script *)
(* from its first line on every interaction (an upload, a change of a      *)
(* sidebar widget), so one action of this model is one complete run of the *)
(* script on the values the widgets hold after the interaction.            *)
(*                                                                         *)
(* src/streamlit_ticket_dashboard_app.py as stored is not a Python program:*)
(* the string of lines 22-27 is broken over several lines and line 63      *)
(* starts with a stray "n".  Python compiles a script before it executes   *)
(* its first statement, so every run of that script ends in SyntaxError    *)
(* with nothing shown: no widget, no message, no stage.  The pipeline that *)
(* runs is the one of src/app.py.                                          *)
(*                                                                         *)
(* Encoding of spreadsheet cells:                                          *)
(*   - a text cell is a sequence of one-character strings, the blank cell  *)
(*     (read by pandas as NaN) is the empty sequence;                      *)
(*   - a time cell is a number of hours since 00:00 of day 0, Blank for an *)
(*     empty cell, Text for a cell pd.to_datetime cannot parse;            *)
(*   - a calendar date is a day number, a Timestamp a number of hours.     *)
(***************************************************************************)
EXTENDS Integers, Sequences, FiniteSets, TLC

\* ------------------------------------------------------------- bounds
\* Longest uploaded sheet (rows below the header row).
MaxRows == 2

\* ---------------------------------------------------------- cell values
DayHours == 24
Blank == -1
Text == -2
NaT == -1
NaN == <<>>
None == <<>>
Some(x) == <<x>>

P1 == <<"P", "1">>
P4 == <<"P", "4">>
Bug == <<"B", "u", "g">>
Request == <<"R", "e", "q">>
WithinSLA == <<"W", "i", "t", "h", "i", "n", " ", "S", "L", "A">>
withinsla == <<"w", "i", "t", "h", "i", "n", " ", "s", "l", "a">>
Breached == <<"B", "r", "e", "a", "c", "h", "e", "d">>

AllColumns ==
    {"Priority", "TicketType", "Resolution Status", "Created Time", "Closed Time"}

Ticket(p, t, s, created, closed) ==
    [c \in AllColumns |->
        CASE c = "Priority" -> p
          [] c = "TicketType" -> t
          [] c = "Resolution Status" -> s
          [] c = "Created Time" -> created
          [] c = "Closed Time" -> closed]

\* The three tickets of the specification's scenario (Priority P1, P1, P4;
\* Resolution Status Within SLA, Breached, Within SLA).
ScenarioRows ==
    << Ticket(P1, Bug, WithinSLA, 0, 6),
       Ticket(P1, Request, Breached, 24, Blank),
       Ticket(P4, Bug, WithinSLA, 24, 27) >>

\* The rows the other sheets are made of: a ticket created at 10:00 of day 0
\* with a lower-case status, and one with a blank Priority, a blank status and
\* a Created Time that is not a date.
RowPool ==
    { Ticket(P1, Bug, withinsla, 10, 34),
      Ticket(NaN, Bug, NaN, Text, 30) }

\* ------------------------------------------------------------ data frames
\* A DataFrame: its column labels, its index labels and its rows in order.
Frame(columns, index, rows) == [columns |-> columns, index |-> index, rows |-> rows]

EmptyFrame == Frame({}, <<>>, <<>>)

Len_(frame) == Len(frame.rows)

RECURSIVE SelectSeq_(_, _, _)
\* The subsequence of s at the positions i..Len(s) for which keep[i] holds.
SelectSeq_(s, keep, i) ==
    IF i > Len(s) THEN <<>>
    ELSE (IF keep[i] THEN <<s[i]>> ELSE <<>>) \o SelectSeq_(s, keep, i + 1)

\* Mutant: the selection renumbers its rows, as frame[mask].reset_index(drop=True).
BoolIndexReset(frame, mask) ==
    Frame(frame.columns,
          [k \in 1..Len(SelectSeq_(frame.rows, mask, 1)) |-> k - 1],
          SelectSeq_(frame.rows, mask, 1))

\* frame[mask]: boolean-mask row selection keeps the rows whose mask entry is
\* True, with their index labels, in frame order.
BoolIndex(frame, mask) ==
    Frame(frame.columns,
          SelectSeq_(frame.index, mask, 1),
          SelectSeq_(frame.rows, mask, 1))

\* Series.isin(values); a NaN cell is in no selection made of sheet values.
Isin(frame, col, values) ==
    [i \in 1..Len_(frame) |-> frame.rows[i][col] \in values]

\* df.get(col, pd.Series()).dropna().unique(): the values of the column in
\* order of first appearance, the missing ones left out; nothing for an
\* absent column.
unique(frame, col) ==
    IF col \in frame.columns
    THEN SelectSeq_([i \in 1..Len_(frame) |-> frame.rows[i][col]],
                    [i \in 1..Len_(frame) |->
                        /\ frame.rows[i][col] # NaN
                        /\ \A j \in 1..(i - 1) : frame.rows[j][col] # frame.rows[i][col]],
                    1)
    ELSE <<>>

\* The values a multiselect offers.
Options(frame, col) == {unique(frame, col)[k] : k \in 1..Len(unique(frame, col))}

\* pd.to_datetime(cell, errors='coerce').
to_datetime(cell) == IF cell >= 0 THEN cell ELSE NaT

\* Timestamp.date(); NaT.date() is NaT.
date(ts) == IF ts = NaT THEN NaT ELSE ts \div DayHours

\* pd.to_datetime(d) of a calendar date: 00:00 of that day.
Midnight(d) == IF d = NaT THEN NaT ELSE d * DayHours

\* Timestamp comparisons; any comparison with NaT is False.
Ge(a, b) == a # NaT /\ b # NaT /\ a >= b
Le(a, b) == a # NaT /\ b # NaT /\ a <= b

SetMin(S) == CHOOSE x \in S : \A y \in S : x <= y

SetMax(S) == CHOOSE x \in S : \A y \in S : x >= y

\* Series.min() / Series.max() of a datetime column: NaT is skipped, and the
\* result is NaT when nothing is left.
ValidTimes(frame, col) ==
    {frame.rows[i][col] : i \in 1..Len_(frame)} \ {NaT}
SeriesMin(frame, col) ==
    IF ValidTimes(frame, col) = {} THEN NaT ELSE SetMin(ValidTimes(frame, col))
SeriesMax(frame, col) ==
    IF ValidTimes(frame, col) = {} THEN NaT ELSE SetMax(ValidTimes(frame, col))

\* ------------------------------------------------------- files and widgets
File(kind, columns, rows) == [kind |-> kind, columns |-> columns, rows |-> rows]
\* No file: the empty upload widget, or no data.xlsx in the working directory.
NoFile == File("none", {}, <<>>)
\* A file pd.read_excel raises on.
Corrupt == File("corrupt", {}, <<>>)
\* data.xlsx while a file is uploaded: the `and` of line 17 short-circuits
\* and the script does not look at the working directory.
Unseen == File("unseen", {}, <<>>)

\* A sheet with the header row `columns` and the given rows below it.
Sheet(columns, rows) ==
    File("xlsx", columns,
         [i \in 1..Len(rows) |-> [c \in columns |-> rows[i][c]]])

ScenarioSheet == Sheet(AllColumns, ScenarioRows)

RowSeqs == UNION {[1..n -> RowPool] : n \in 0..MaxRows}

\* The header rows of uploaded sheets: all five columns, no Created Time (so
\* no date input), and the two time columns alone (so every filter, KPI and
\* chart that refers to a label column meets its absence).
ColumnSets ==
    {AllColumns, AllColumns \ {"Created Time"}, {"Created Time", "Closed Time"}}

\* What the user may put in the upload widget.
Uploads ==
    {Corrupt, ScenarioSheet}
    \cup {Sheet(columns, rows) : columns \in ColumnSets, rows \in RowSeqs}

\* What the working directory may hold under the name data.xlsx.
DataFiles == {NoFile, Corrupt, ScenarioSheet}

\* The value a date_input holds.  Line 50 gives it a list of two dates as
\* default, which makes it a range input: it hands back a tuple of no, one
\* (a range half picked) or two dates, the earlier first.  "default" stands
\* for the default pair.
DateValue(kind, days) == [kind |-> kind, days |-> days]
DefaultDates == DateValue("default", <<>>)
\* The calendar days the date widget is used on: those the sheets have tickets on.
Days ==
    {r["Created Time"] \div DayHours :
        r \in {x \in RowPool \cup {ScenarioRows[i] : i \in 1..Len(ScenarioRows)} :
                  x["Created Time"] >= 0}}
DateChoices ==
    {DateValue("tuple", <<>>)}
    \cup {DateValue("tuple", <<d>>) : d \in Days}
    \cup {DateValue("tuple", <<pair[1], pair[2]>>) :
              pair \in {x \in Days \X Days : x[1] <= x[2]}}

\* ------------------------------------------------------------ one script run
\* The script's variables at the point a run has reached, with the widgets
\* it has shown and the values they hand to it.
Env(variant, uploader, data_xlsx, priority_filter, ticket_type_filter, sla_filter, date_widget, nat_accepted, float_up) ==
    [ variant |-> variant,
      status |-> "running",
      stages |-> <<>>,
      widgets |-> {},
      message |-> "",
      exception |-> "",
      uploader |-> uploader,
      data_xlsx |-> data_xlsx,
      priority_filter |-> priority_filter,
      ticket_type_filter |-> ticket_type_filter,
      sla_filter |-> sla_filter,
      date_widget |-> date_widget,
      nat_accepted |-> nat_accepted,
      float_up |-> float_up,
      uploaded_file |-> NoFile,
      df |-> EmptyFrame,
      date_range |-> DateValue("none", <<>>),
      start_date |-> None,
      end_date |-> None,
      filtered_df |-> EmptyFrame,
      total_tickets |-> 0,
      within_sla |-> 0,
      sla_percentage |-> [num |-> 0, den |-> 1],
      sla_metric |-> 0,
      bug_tickets |-> 0,
      prio_counts |-> <<>>,
      table |-> EmptyFrame,
      download |-> EmptyFrame ]

Raise(e, exception) == [e EXCEPT !.status = "raised", !.exception = exception]
Stop(e, message) == [e EXCEPT !.status = "stopped", !.message = message]
Mark(e, stage) == [e EXCEPT !.stages = Append(@, stage)]
Did(e, stage) == \E i \in 1..Len(e.stages) : e.stages[i] = stage
Render(e, widget) == [e EXCEPT !.widgets = @ \cup {widget}]
Rendered(e, widget) == widget \in e.widgets

Running(e) == e.status = "running"

\* if uploaded_file is None and os.path.exists(DEFAULT_DATAFILE): the path
\* of data.xlsx stands in for the upload; the file is what read_excel finds
\* under that path.
LoadFile(uploader, data_xlsx) ==
    IF uploader = NoFile /\ data_xlsx # NoFile THEN data_xlsx ELSE uploader

\* uploaded_file = st.file_uploader(...), then the fallback to data.xlsx.
FileUploader(e) ==
    Render([e EXCEPT !.uploaded_file = LoadFile(e.uploader, e.data_xlsx)],
           "file_uploader")

\* if not uploaded_file: st.warning(...); st.stop()
CheckFile(e) ==
    IF e.uploaded_file = NoFile THEN Stop(e, "warning") ELSE e

\* The frame pd.read_excel makes of a readable sheet.
ReadFrame(file) ==
    Frame(file.columns, [i \in 1..Len(file.rows) |-> i - 1], file.rows)

\* df = pd.read_excel(uploaded_file), or st.error(...); st.stop()
read_excel(e) ==
    IF e.uploaded_file.kind = "corrupt"
    THEN Stop(e, "error")
    ELSE Mark([e EXCEPT !.df = ReadFrame(e.uploaded_file)], "read")

ReadFile(e) == IF Running(e) THEN read_excel(e) ELSE e

\* df[col] = pd.to_datetime(df[col], errors='coerce') for the two time columns.
ParseColumn(frame, col) ==
    IF col \in frame.columns
    THEN [frame EXCEPT !.rows =
             [i \in 1..Len(frame.rows) |->
                 [frame.rows[i] EXCEPT ![col] = to_datetime(@)]]]
    ELSE frame

ParseFrame(frame) == ParseColumn(ParseColumn(frame, "Created Time"), "Closed Time")

ParseDates(e) ==
    IF Running(e) THEN [e EXCEPT !.df = ParseFrame(e.df)] ELSE e

\* The three multiselects of the sidebar.
Sidebar(e) == IF Running(e) THEN Render(e, "multiselect") ELSE e

\* ------------------------------------------------------------- date input
\* st.sidebar.date_input(label, [min_date, max_date]): the widget's value,
\* which is the default pair until the user picks something else.
date_input(widget, min_date, max_date) ==
    IF widget.kind = "default"
    THEN DateValue("tuple", <<min_date, max_date>>)
    ELSE widget

\* min_date, max_date and the date_input call.  With no valid Created Time
\* both dates are NaT; whether the widget then raises or hands the pair back
\* depends on the installed libraries, so both outcomes are modelled.
ReadDateInput(e) ==
    LET min_date == date(SeriesMin(e.df, "Created Time"))
        max_date == date(SeriesMax(e.df, "Created Time"))
    IN  IF min_date = NaT /\ ~e.nat_accepted
        THEN Raise(e, "ValueError")
        ELSE Render([e EXCEPT !.date_range =
                                  date_input(e.date_widget, min_date, max_date)],
                    "date_input")

\* date_range is the widget's value, or None without the column.
AppDateRange(e) ==
    IF Running(e) /\ "Created Time" \in e.df.columns THEN ReadDateInput(e) ELSE e

\* ------------------------------------------------------------ filter stage
\* if selection: filtered_df = filtered_df[filtered_df[col].isin(selection)]
FilterBy(e, col, selection) ==
    IF ~Running(e) \/ selection = {} THEN e
    ELSE IF col \notin e.filtered_df.columns THEN Raise(e, "KeyError")
    ELSE [e EXCEPT !.filtered_df = BoolIndex(@, Isin(@, col, selection))]

FilterPriority(e) == FilterBy(e, "Priority", e.priority_filter)
FilterTicketType(e) == FilterBy(e, "TicketType", e.ticket_type_filter)
FilterSLA(e) == FilterBy(e, "Resolution Status", e.sla_filter)

\* filtered_df = df.copy(), then the three selections.
CategoricalFilters(e) ==
    FilterSLA(FilterTicketType(FilterPriority([e EXCEPT !.filtered_df = e.df])))

\* (frame['Created Time'] >= start) & (frame['Created Time'] <= end)
DateMask(frame, start, end) ==
    [i \in 1..Len_(frame) |->
        /\ Ge(frame.rows[i]["Created Time"], start)
        /\ Le(frame.rows[i]["Created Time"], end)]

\* The truth value of date_range: None and the empty tuple are false.
Truthy(value) == value.kind = "tuple" /\ value.days # <<>>

\* start_date, end_date = date_range, for a sequence of two dates.
Unpack(days) == <<days[1], days[2]>>

\* The date predicate; the unpacking raises ValueError on a sequence that
\* does not hold two dates.
AppDateFilter(e) ==
    IF Running(e) /\ Truthy(e.date_range) /\ "Created Time" \in e.filtered_df.columns
    THEN IF Len(e.date_range.days) # 2 THEN Raise(e, "ValueError")
         ELSE LET start_date == Midnight(Unpack(e.date_range.days)[1])
                  end_date == Midnight(Unpack(e.date_range.days)[2])
              IN  [e EXCEPT !.start_date = Some(start_date),
                            !.end_date = Some(end_date),
                            !.filtered_df =
                                BoolIndex(@, DateMask(@, start_date, end_date))]
    ELSE e

AppFilter(e) ==
    IF Running(e)
    THEN LET r == AppDateFilter(CategoricalFilters(e))
         IN  IF Running(r) THEN Mark(r, "filter") ELSE r
    ELSE e

\* ------------------------------------------------------------------- KPIs
\* The number of positions of a boolean mask that hold: len(frame[mask]).
CountTrue(mask) == Cardinality({i \in DOMAIN mask : mask[i]})

\* len(filtered_df[filtered_df.get(col) == value]) if col in columns else 0
CountEqual(frame, col, value) ==
    IF col \in frame.columns
    THEN CountTrue([i \in 1..Len_(frame) |-> frame.rows[i][col] = value])
    ELSE 0

\* Mutant: the division without the test of the total.
PercentageUnguarded(within_sla, total_tickets) ==
    [num |-> within_sla * 100, den |-> total_tickets]

\* sla_percentage = (within_sla / total_tickets * 100) if total_tickets > 0 else 0
Percentage(within_sla, total_tickets) ==
    IF total_tickets > 0
    THEN [num |-> within_sla * 100, den |-> total_tickets]
    ELSE [num |-> 0, den |-> 1]

\* a / b is half-way between two integers (b > 0).
IsTie(a, b) == 2 * (a % b) = b

\* a / b to the nearest integer (b > 0).  The script formats a float: where
\* the exact quotient is half-way, the digit shown depends on which side of
\* the half the float fell (23/80*100 gives 28.7, 1/2000*100 gives 0.1), so
\* either neighbour may come out; float_up says which.
RoundDiv(a, b, float_up) ==
    LET q == a \div b
        r == a % b
    IN  IF 2 * r < b THEN q
        ELSE IF 2 * r > b THEN q + 1
        ELSE IF float_up THEN q + 1 ELSE q

\* f"{sla_percentage:.1f}%", in tenths of a percent.
OneDecimal(p, float_up) == RoundDiv(p.num * 10, p.den, float_up)

\* total_tickets, within_sla by exact comparison with "Within SLA",
\* sla_percentage, and the three metrics; the third counts the bugs.  A
\* division by zero raises ZeroDivisionError.
AppKPIs(e) ==
    IF ~Running(e) THEN e ELSE
    LET total_tickets == Len_(e.filtered_df)
        within_sla == CountEqual(e.filtered_df, "Resolution Status", WithinSLA)
        sla_percentage == Percentage(within_sla, total_tickets)
    IN  IF sla_percentage.den = 0
        THEN Raise([e EXCEPT !.total_tickets = total_tickets,
                             !.within_sla = within_sla], "ZeroDivisionError")
        ELSE Mark([e EXCEPT !.total_tickets = total_tickets,
                            !.within_sla = within_sla,
                            !.sla_percentage = sla_percentage,
                            !.sla_metric = OneDecimal(sla_percentage, e.float_up),
                            !.bug_tickets = CountEqual(e.filtered_df, "TicketType", Bug)],
                  "kpis")

\* ----------------------------------------------------------------- charts
\* Mutant: groupby(col, dropna=False), the missing value counted as a group.
GroupBySizeKeepNa(frame, col) ==
    [v \in {frame.rows[i][col] : i \in 1..Len_(frame)} |->
        Cardinality({i \in 1..Len_(frame) : frame.rows[i][col] = v})]

\* frame.groupby(col).size(): a count per value, the rows with a missing
\* value left out (dropna=True is the default).
GroupBySize(frame, col) ==
    [v \in {frame.rows[i][col] : i \in 1..Len_(frame)} \ {NaN} |->
        Cardinality({i \in 1..Len_(frame) : frame.rows[i][col] = v})]

PriorityChart(e) ==
    IF "Priority" \in e.filtered_df.columns /\ Len_(e.filtered_df) > 0
    THEN Mark([e EXCEPT !.prio_counts = GroupBySize(e.filtered_df, "Priority")],
              "chart_priority")
    ELSE e

TypeChart(e) ==
    IF "TicketType" \in e.filtered_df.columns /\ Len_(e.filtered_df) > 0
    THEN Mark(e, "chart_type")
    ELSE e

AppCharts(e) == IF Running(e) THEN TypeChart(PriorityChart(e)) ELSE e

\* ------------------------------------------------------- table and export
AppTable(e) ==
    IF Running(e) THEN Mark([e EXCEPT !.table = e.filtered_df], "table") ELSE e

\* if not filtered_df.empty: st.download_button(data=to_excel_bytes(filtered_df))
Export(e) ==
    IF Running(e) /\ Len_(e.filtered_df) > 0
    THEN Mark([e EXCEPT !.download = e.filtered_df], "download")
    ELSE e

Finish(e) == IF Running(e) THEN [e EXCEPT !.status = "done"] ELSE e

\* ------------------------------------------------------------- the scripts
\* src/app.py.  Each stage is skipped once the run has stopped or raised.
AppScript(e) ==
    Finish(Export(AppTable(AppCharts(AppKPIs(AppFilter(AppDateRange(
        Sidebar(ParseDates(ReadFile(CheckFile(FileUploader(e))))))))))))

\* src/streamlit_ticket_dashboard_app.py: the compilation of the stored text
\* fails, and no statement of it is executed.
StScript(e) == Raise(e, "SyntaxError")

Script(e) == IF e.variant = "streamlit" THEN StScript(e) ELSE AppScript(e)

\* ------------------------------------------------------------------ state
VARIABLES
    variant,            \* which of the two scripts is served
    data_xlsx,          \* the file data.xlsx of the working directory
    uploader,           \* the file the upload widget holds, or NoFile
    widget_state,       \* the values Streamlit keeps for the sidebar widgets,
                        \* each under the identity of the widget it was given to
    priority_filter,    \* what the three multiselects handed to the last run
    ticket_type_filter,
    sla_filter,
    date_widget,        \* what the date input held in the last run
    run,                \* the script's variables at the end of the last run
    first_view          \* history, not script state: the view of the first
                        \* run on the current file with nothing selected and
                        \* the default dates

vars == <<variant, data_xlsx, uploader, widget_state, priority_filter, ticket_type_filter, sla_filter, date_widget, run, first_view>>

Variants == {"app", "streamlit"}

\* The outcomes of a date_input whose default dates are NaT: it raises or it
\* hands them back (TRUE), by the installed libraries.  Any other default is
\* accepted.
NatOutcomes(file) ==
    IF file.kind = "xlsx" /\ "Created Time" \in file.columns
       /\ \A i \in 1..Len(file.rows) : file.rows[i]["Created Time"] < 0
    THEN BOOLEAN
    ELSE {TRUE}

Execute(v, file, disk, p, t, s, d, nat_accepted, float_up) ==
    Script(Env(v, file, disk, p, t, s, d, nat_accepted, float_up))

\* The ways a run on these inputs can end: one, unless the date input has NaT
\* defaults or the percentage to show is half-way between two digits.
Outcomes(v, file, disk, p, t, s, d) ==
    UNION {LET r == Execute(v, file, disk, p, t, s, d, nat_accepted, FALSE)
           IN  IF Did(r, "kpis") /\ IsTie(r.sla_percentage.num * 10, r.sla_percentage.den)
               THEN {r, Execute(v, file, disk, p, t, s, d, nat_accepted, TRUE)}
               ELSE {r}
           : nat_accepted \in NatOutcomes(LoadFile(file, disk))}

\* The run had nothing selected and the date input, if shown, at its default
\* [min_date, max_date].
DefaultCriteria(r) ==
    /\ r.priority_filter = {} /\ r.ticket_type_filter = {} /\ r.sla_filter = {}
    /\ Rendered(r, "date_input") =>
          r.date_range = date_input(DefaultDates,
                                    date(SeriesMin(r.df, "Created Time")),
                                    date(SeriesMax(r.df, "Created Time")))

\* Streamlit knows a widget by its label and arguments and keeps its value
\* under that identity: the options of a multiselect, the default pair of the
\* date input.
MultiselectId(frame, col) == unique(frame, col)
DateInputId(frame) ==
    IF "Created Time" \in frame.columns
    THEN <<date(SeriesMin(frame, "Created Time")), date(SeriesMax(frame, "Created Time"))>>
    ELSE <<>>

\* The kept values of a widget are pairs <<identity, value>>, one for each
\* identity whose value is not the default.
NoWidgetState == [priority |-> {}, ticket_type |-> {}, sla |-> {}, dates |-> {}]

\* The value a widget of identity id hands to the script: the one kept under
\* that identity, or its default.
Kept(entries, id, default) ==
    IF \E entry \in entries : entry[1] = id
    THEN (CHOOSE entry \in entries : entry[1] = id)[2]
    ELSE default

\* The user gives the widget of identity id a value.
Put(entries, id, value, default) ==
    {entry \in entries : entry[1] # id}
    \cup (IF value = default THEN {} ELSE {<<id, value>>})

\* What is left of a widget's kept values when Streamlit drops those of the
\* widgets a run did not show.
Only(entries, shown, id) ==
    IF shown THEN {entry \in entries : entry[1] = id} ELSE {}

\* The frame the script makes of the file it loads.
NewFrame(loaded) ==
    IF loaded.kind = "xlsx" THEN ParseFrame(ReadFrame(loaded)) ELSE EmptyFrame

\* After a run that went to its end Streamlit drops the value of every
\* widget the run did not show (TRUE).  After a run cut short by st.stop()
\* or by an exception some Streamlit versions drop them and some keep them;
\* the scripts pin no version, so both are modelled.
CleanupOutcomes(r) == IF r.status = "done" THEN {TRUE} ELSE BOOLEAN

Cleanup(state, r, frame) ==
    [priority |-> Only(state.priority, Rendered(r, "multiselect"),
                       MultiselectId(frame, "Priority")),
     ticket_type |-> Only(state.ticket_type, Rendered(r, "multiselect"),
                          MultiselectId(frame, "TicketType")),
     sla |-> Only(state.sla, Rendered(r, "multiselect"),
                  MultiselectId(frame, "Resolution Status")),
     dates |-> Only(state.dates, Rendered(r, "date_input"), DateInputId(frame))]

\* The first default view on the file the script loads, with whether a run
\* with other criteria came after it.
Remember(known, r) ==
    IF known = None
    THEN IF Did(r, "filter") /\ DefaultCriteria(r)
         THEN Some([view |-> r.filtered_df, strayed |-> FALSE])
         ELSE None
    ELSE IF DefaultCriteria(r) THEN known
         ELSE Some([known[1] EXCEPT !.strayed = TRUE])

\* One run of the script with the upload widget holding `file`, the working
\* directory holding `disk`, and the sidebar widgets' values kept in `state`.
Rerun(file, disk, state) ==
    LET frame == NewFrame(LoadFile(file, disk))
        p == Kept(state.priority, MultiselectId(frame, "Priority"), {})
        t == Kept(state.ticket_type, MultiselectId(frame, "TicketType"), {})
        s == Kept(state.sla, MultiselectId(frame, "Resolution Status"), {})
        d == Kept(state.dates, DateInputId(frame), DefaultDates)
    IN  /\ uploader' = file
        /\ data_xlsx' = disk
        /\ run' \in Outcomes(variant, file, disk, p, t, s, d)
        /\ priority_filter' = IF Rendered(run', "multiselect") THEN p ELSE {}
        /\ ticket_type_filter' = IF Rendered(run', "multiselect") THEN t ELSE {}
        /\ sla_filter' = IF Rendered(run', "multiselect") THEN s ELSE {}
        /\ date_widget' = IF Rendered(run', "date_input") THEN d ELSE DefaultDates
        /\ \E cleanup \in CleanupOutcomes(run') :
              widget_state' = IF cleanup THEN Cleanup(state, run', frame) ELSE state
        /\ first_view' =
              Remember(IF LoadFile(file, disk) = LoadFile(uploader, data_xlsx)
                       THEN first_view ELSE None,
                       run')
        /\ UNCHANGED variant

Init ==
    /\ variant \in Variants
    /\ data_xlsx \in DataFiles
    /\ uploader = NoFile
    /\ widget_state = NoWidgetState
    /\ priority_filter = {}
    /\ ticket_type_filter = {}
    /\ sla_filter = {}
    /\ date_widget = DefaultDates
    /\ run \in Outcomes(variant, NoFile, data_xlsx, {}, {}, {}, DefaultDates)
    /\ first_view = Remember(None, run)

\* The run that follows a change of the file the script loads.
NewFile(file, disk) == Rerun(file, disk, widget_state)

\* The user puts a file in the upload widget, empty or not.
Upload ==
    /\ Rendered(run, "file_uploader")
    /\ \E file \in Uploads :
          /\ file # uploader
          /\ NewFile(file, Unseen)

\* The user empties the upload widget; the script looks for data.xlsx again.
RemoveUpload ==
    /\ uploader # NoFile
    /\ \E disk \in DataFiles : NewFile(NoFile, disk)

\* The user changes a widget the last run showed; its new value is kept
\* under the identity the widget has.
SelectPriority ==
    /\ Rendered(run, "multiselect")
    /\ \E p \in SUBSET Options(run.df, "Priority") :
          /\ p # priority_filter
          /\ Rerun(uploader, data_xlsx,
                   [widget_state EXCEPT !.priority =
                       Put(@, MultiselectId(run.df, "Priority"), p, {})])

SelectTicketType ==
    /\ Rendered(run, "multiselect")
    /\ \E t \in SUBSET Options(run.df, "TicketType") :
          /\ t # ticket_type_filter
          /\ Rerun(uploader, data_xlsx,
                   [widget_state EXCEPT !.ticket_type =
                       Put(@, MultiselectId(run.df, "TicketType"), t, {})])

SelectSLA ==
    /\ Rendered(run, "multiselect")
    /\ \E s \in SUBSET Options(run.df, "Resolution Status") :
          /\ s # sla_filter
          /\ Rerun(uploader, data_xlsx,
                   [widget_state EXCEPT !.sla =
                       Put(@, MultiselectId(run.df, "Resolution Status"), s, {})])

\* The user picks other dates, or picks the default pair again.
ChooseDates ==
    /\ Rendered(run, "date_input")
    /\ \E d \in DateChoices \cup {DefaultDates} :
          /\ d # date_widget
          /\ d # DateValue("tuple", DateInputId(run.df))
          /\ Rerun(uploader, data_xlsx,
                   [widget_state EXCEPT !.dates =
                       Put(@, DateInputId(run.df), d, DefaultDates)])

\* The user reruns the script without touching a widget.
Refresh == Rerun(uploader, data_xlsx, widget_state)

Next ==
    \/ Upload
    \/ RemoveUpload
    \/ SelectPriority
    \/ SelectTicketType
    \/ SelectSLA
    \/ ChooseDates
    \/ Refresh

Spec == Init /\ [][Next]_vars

\* ================================================================== claims
\* The file the script loads: the upload, or data.xlsx when there is none.
Loaded == LoadFile(uploader, data_xlsx)

NothingSelected ==
    priority_filter = {} /\ ticket_type_filter = {} /\ sla_filter = {}

\* view's rows are rows of frame, unaltered, in frame order, each under the
\* index label it has in frame.
IsSubFrame(view, frame) ==
    /\ view.columns = frame.columns
    /\ Len(view.index) = Len(view.rows)
    /\ \A k \in 1..Len_(view) :
          /\ view.index[k] + 1 \in 1..Len_(frame)
          /\ frame.index[view.index[k] + 1] = view.index[k]
          /\ view.rows[k] = frame.rows[view.index[k] + 1]
    /\ \A k \in 1..(Len_(view) - 1) : view.index[k] < view.index[k + 1]

Created(row) == row["Created Time"]

\* The dates the criteria put on Created Time: the pair the date input holds,
\* which is the Dataset's first and last day while the input is left alone.
Interval(frame) ==
    IF date_widget = DefaultDates THEN DateInputId(frame) ELSE date_widget.days

\* The positions of the rows of frame that meet the criteria the widgets hold:
\* a function of the Dataset and of the criteria, and of nothing else.
Meeting(frame) ==
    {i \in 1..Len_(frame) :
        /\ priority_filter # {} => frame.rows[i]["Priority"] \in priority_filter
        /\ ticket_type_filter # {} => frame.rows[i]["TicketType"] \in ticket_type_filter
        /\ sla_filter # {} => frame.rows[i]["Resolution Status"] \in sla_filter
        /\ ("Created Time" \in frame.columns /\ Interval(frame) # <<>>) =>
              /\ Ge(Created(frame.rows[i]), Midnight(Interval(frame)[1]))
              /\ Le(Created(frame.rows[i]), Midnight(Interval(frame)[2]))}

\* C1: the FilteredView a run produces holds only rows of the Dataset (the
\* loaded sheet with its times parsed), unaltered and in Dataset order; under
\* every criteria it is the rows of the Dataset that meet them, so it depends
\* on the Dataset and the criteria alone, not on what the widgets held before,
\* on the values Streamlit still keeps or on how earlier runs ended; and a run
\* with nothing selected and the default dates produces again the view the
\* first such run on the file produced, whatever was selected in between.
C1_FilteredViewOfDataset ==
    /\ Did(run, "filter") =>
          /\ run.df = NewFrame(Loaded)
          /\ IsSubFrame(run.filtered_df, run.df)
          /\ {run.filtered_df.index[k] : k \in 1..Len_(run.filtered_df)}
                = {run.df.index[i] : i \in Meeting(run.df)}
    /\ (Did(run, "filter") /\ DefaultCriteria(run) /\ first_view # None)
         => run.filtered_df = first_view[1].view

\* C1 witness: the view of the default criteria is computed again, and comes
\* out with rows in it, after runs on the same file that had a selection or
\* other dates.
C1_Witness ==
    /\ Did(run, "filter")
    /\ Rendered(run, "date_input")
    /\ DefaultCriteria(run)
    /\ first_view # None
    /\ first_view[1].strayed
    /\ Len_(run.filtered_df) > 0

RECURSIVE SumCounts(_, _)
SumCounts(counts, keys) ==
    IF keys = {} THEN 0
    ELSE LET k == CHOOSE k \in keys : TRUE
         IN  counts[k] + SumCounts(counts, keys \ {k})

\* The positions of the rows of frame whose Priority is not missing.
RowsWithPriority(frame) == {i \in 1..Len_(frame) : frame.rows[i]["Priority"] # NaN}

\* C3 as claimed: the per-priority counts of the chart sum to the total
\* ticket count of the FilteredView.
C3_CountsSumToTotal ==
    Did(run, "chart_priority") =>
        SumCounts(run.prio_counts, DOMAIN run.prio_counts) = run.total_tickets

\* C3 amended: the per-priority counts of the chart sum to the number of rows
\* of the FilteredView whose Priority is not missing, and no count is zero.
C3_CountsSumToRowsWithPriority ==
    Did(run, "chart_priority") =>
        /\ SumCounts(run.prio_counts, DOMAIN run.prio_counts)
              = Cardinality(RowsWithPriority(run.filtered_df))
        /\ \A k \in DOMAIN run.prio_counts : run.prio_counts[k] > 0
        /\ run.total_tickets = Len_(run.filtered_df)

\* C3 witness: the chart is drawn for a view with a row of missing Priority
\* and a row with a Priority.
C3_Witness ==
    /\ Did(run, "chart_priority")
    /\ RowsWithPriority(run.filtered_df) # {}
    /\ Cardinality(RowsWithPriority(run.filtered_df)) < run.total_tickets

\* C8: a run whose FilteredView has no rows, of an empty Dataset or of one
\* whose rows the criteria all reject, reports a total of 0 and a Within-SLA
\* percentage of exactly 0, and does not raise.
C8_EmptyViewZeroPercent ==
    (Did(run, "filter") /\ Len_(run.filtered_df) = 0) =>
        /\ Did(run, "kpis")
        /\ run.status = "done"
        /\ run.total_tickets = 0
        /\ run.sla_percentage.num = 0 /\ run.sla_percentage.den # 0
        /\ run.sla_metric = 0

\* C8 witness: the criteria reject every row of a sheet that has rows and a
\* Resolution Status column, and the KPIs were shown.
C8_Witness ==
    /\ Did(run, "kpis")
    /\ Len_(run.filtered_df) = 0
    /\ Len_(run.df) > 0
    /\ "Resolution Status" \in run.df.columns

\* ------------------------------------------------------- claims that fail
\* C2, for sheets whose Created Time cells are all valid: with nothing selected
\* and the date input at its default (the sheet's first and last day), the
\* FilteredView is the Dataset, rows created after 00:00 of the last day too.
C2_DefaultCriteriaKeepAllRows ==
    (/\ Rendered(run, "date_input")
     /\ NothingSelected /\ date_widget = DefaultDates
     /\ \A i \in 1..Len_(run.df) : Created(run.df.rows[i]) # NaT)
        => (Did(run, "filter") /\ run.filtered_df = run.df)

\* The date input holds a single date: the range widget of line 50 hands it
\* over as a one-element sequence.
SingleDate == date_widget.kind = "tuple" /\ Len(date_widget.days) = 1

\* The index labels of the rows of frame the three selections let through
\* and that were created on day d, at any time of day.
OnDay(frame, d) ==
    {frame.index[i] : i \in
        {i \in 1..Len_(frame) :
            /\ priority_filter # {} => frame.rows[i]["Priority"] \in priority_filter
            /\ ticket_type_filter # {} => frame.rows[i]["TicketType"] \in ticket_type_filter
            /\ sla_filter # {} => frame.rows[i]["Resolution Status"] \in sla_filter
            /\ Created(frame.rows[i]) # NaT
            /\ Created(frame.rows[i]) \div DayHours = d}}

\* C4: a single date D from the date input is normalized to start = end = D without raising, and the filter
\* keeps exactly the rows created on day D, whatever their time of day.
C4_SingleDateKeepsThatDay ==
    (Rendered(run, "date_input") /\ SingleDate) =>
        /\ Did(run, "filter")
        /\ run.start_date = Some(Midnight(date_widget.days[1]))
        /\ run.end_date = Some(Midnight(date_widget.days[1]))
        /\ {run.filtered_df.index[k] : k \in 1..Len_(run.filtered_df)}
              = OnDay(run.df, date_widget.days[1])

\* The date input has dates to offer: the sheet has no Created Time column or
\* at least one Created Time in it is a date.
DatesOnOffer(frame) ==
    "Created Time" \in frame.columns => SeriesMin(frame, "Created Time") # NaT

\* C5: on a sheet that lacks some of the recognized columns every run goes to
\* its end without raising, with the KPIs and the table shown.
C5_AbsentColumnsNeverRaise ==
    (Did(run, "read") /\ run.df.columns # AllColumns /\ DatesOnOffer(run.df)) =>
        /\ run.status = "done"
        /\ Did(run, "kpis") /\ Did(run, "table")

\* C6: a run of streamlit_ticket_dashboard_app.py, the script that has the
\* average-resolution KPI, on a readable sheet gets to its KPI row and
\* reports that KPI, as a mean or as the sentinel, without an error.
C6_AvgResolutionOrDash ==
    (variant = "streamlit" /\ Loaded.kind = "xlsx") =>
        /\ run.status # "raised"
        /\ Did(run, "kpis")

\* The claim's reading of "contains the text Within in any letter case".
UpperCase == <<"A", "B", "C", "D", "E", "F", "G", "H", "I", "J", "K", "L", "M",
               "N", "O", "P", "Q", "R", "S", "T", "U", "V", "W", "X", "Y", "Z">>
LowerCase == <<"a", "b", "c", "d", "e", "f", "g", "h", "i", "j", "k", "l", "m",
               "n", "o", "p", "q", "r", "s", "t", "u", "v", "w", "x", "y", "z">>
Within == <<"W", "i", "t", "h", "i", "n">>

ToLower(ch) ==
    IF \E k \in 1..Len(UpperCase) : UpperCase[k] = ch
    THEN LowerCase[CHOOSE k \in 1..Len(UpperCase) : UpperCase[k] = ch]
    ELSE ch

ContainsIgnoreCase(s, pat) ==
    \E off \in 0..(Len(s) - Len(pat)) :
        \A j \in 1..Len(pat) : ToLower(s[off + j]) = ToLower(pat[j])

\* The positions of the rows of frame whose status contains "Within"; a
\* missing status does not.
RowsSayingWithin(frame) ==
    {i \in 1..Len_(frame) :
        /\ frame.rows[i]["Resolution Status"] # NaN
        /\ ContainsIgnoreCase(frame.rows[i]["Resolution Status"], Within)}

\* C7: the Within-SLA percentage of a FilteredView with total > 0 is
\* 100 * (rows whose Resolution Status contains "Within" in any letter case)
\* / total; and on the scenario sheet Priority = [P1] gives 2 rows and 50.0.
C7_WithinSlaPercentage ==
    /\ (Did(run, "kpis") /\ run.total_tickets > 0
            /\ "Resolution Status" \in run.filtered_df.columns) =>
          /\ run.total_tickets = Len_(run.filtered_df)
          /\ run.sla_percentage.num * run.total_tickets
                = 100 * Cardinality(RowsSayingWithin(run.filtered_df))
                      * run.sla_percentage.den
    /\ (/\ Loaded = ScenarioSheet
        /\ priority_filter = {P1} /\ ticket_type_filter = {} /\ sla_filter = {}
        /\ date_widget = DefaultDates) =>
          /\ run.total_tickets = 2
          /\ run.sla_metric = 500

\* C9: in every run of either script, filtering, KPIs, charts, table and
\* export happen only after a spreadsheet was read; with no file the run
\* shows the warning and stops, with an unreadable file it shows the error
\* and stops, in both cases with no stage done and nothing computed; with a
\* readable file the run reads it and goes on to the sidebar.
C9_PipelineOnlyAfterRead ==
    /\ run.stages # <<>> => (run.stages[1] = "read" /\ Loaded.kind = "xlsx")
    /\ Loaded.kind = "none" =>
          /\ run.status = "stopped" /\ run.message = "warning"
          /\ run.stages = <<>>
          /\ run.filtered_df = EmptyFrame /\ run.download = EmptyFrame
    /\ Loaded.kind = "corrupt" =>
          /\ run.status = "stopped" /\ run.message = "error"
          /\ run.stages = <<>>
          /\ run.filtered_df = EmptyFrame /\ run.download = EmptyFrame
    /\ Loaded.kind = "xlsx" =>
          /\ run.message = ""
          /\ Did(run, "read") /\ Rendered(run, "multiselect")
          /\ run.df = NewFrame(Loaded)

=============================================================================
